---- MODULE Spec2Model ----
(***************************************************************************)
(* Model of the 3dmodel pipeline: the tools and their argument binding,    *)
(* tool dispatch (Agent), the per-turn working set and the persistent      *)
(* name->model store, the rigid-transform step and the mesh builders of    *)
(* the trimesh backend, and the CLI loop that drives them.                 *)
(*                                                                         *)
(* Specifications: Spec (a session driven through the Agent and backend    *)
(* API), SpecCli (the run_cli loop), SpecDispatch (one response handed to  *)
(* handle_chat_response), SpecTool (direct calls of the tools and of the   *)
(* Model dict conversion), SpecRender (render on a list of models),        *)
(* SpecParse (handle_chat_response on the text of a response), SpecNaca    *)
(* (the airfoil curve generator), SpecPose (the world transform of a       *)
(* vertex) and SpecHistory (sessions whose AI client may raise).           *)
(*                                                                         *)
(* Python objects are modelled by a heap (reference -> Model record);      *)
(* Agent.models holds references, Agent.persistent_models is an insertion- *)
(* ordered dict of (key, reference) entries, so that aliasing between the  *)
(* working set and the persistent store is visible.  Floating-point        *)
(* coordinates are modelled by integers.                                   *)
(***************************************************************************)
EXTENDS Integers, Sequences, FiniteSets, TLC

VARIABLES
    heap,                  \* reference -> Model object
    models,                \* Agent.models: list of references
    operations,            \* Agent.operations: list of ModelOperation
    persistent_models,     \* Agent.persistent_models: dict name -> reference
    conversation_history,  \* Agent.conversation_history
    batch,                 \* the parsed response of the turn in progress
    pc,                    \* position of the driver within a turn
    conversation_turn,     \* completed turns
    error,                 \* exception that ended the last step, "" if none
    consumed,              \* per pending operation: times transform took it
    before,                \* the objects as they were when the step began
    records_seen,          \* records handed to dispatch so far
    scene,                 \* BackendTrimesh.scene: the meshes of the last render
    invocation,            \* the input of a direct call, or the line the CLI read
    returned               \* what the last direct call returned or raised

vars == <<heap, models, operations, persistent_models, conversation_history,
          batch, pc, conversation_turn, error, consumed, before, records_seen,
          scene, invocation, returned>>

\* the variables of direct tool calls
direct == <<invocation, returned>>

\* Tool-invocation records handed to dispatch over a session.
MaxRecords == 3
\* Requests (calls of Agent.input) in a session.
MaxTurns == 2
\* Records of one response, where one response is dispatched by itself.
MaxBatch == 4

----------------------------------------------------------------------------
(* Generic helpers *)

Range(s) == {s[i] : i \in 1..Len(s)}

\* dict.get(key, default)
Get(d, key, default) == IF key \in DOMAIN d THEN d[key] ELSE default

\* The JSON null
None == [none |-> TRUE]

\* The empty dict {}
EmptyDict == <<>>

\* Python dict (insertion ordered) as a sequence of entries
DictHas(d, k) == \E i \in 1..Len(d) : d[i].key = k

DictGet(d, k) == d[CHOOSE i \in 1..Len(d) : d[i].key = k].ref

DictSet_keepfirst(d, k, v) ==
    IF DictHas(d, k) THEN d ELSE Append(d, [key |-> k, ref |-> v])

DictSet_duplicate(d, k, v) == Append(d, [key |-> k, ref |-> v])

\* d[k] = v : replaces the value of an existing key in place, else appends
DictSet(d, k, v) ==
    IF DictHas(d, k)
    THEN [i \in 1..Len(d) |-> IF d[i].key = k THEN [key |-> k, ref |-> v] ELSE d[i]]
    ELSE Append(d, [key |-> k, ref |-> v])

DictValues(d) == [i \in 1..Len(d) |-> d[i].ref]

\* Object allocation: the heap is a sequence of objects, a reference is an
\* index into it
Alloc(h) == Len(h) + 1

Store(h, r, m) == [x \in 1..r |-> IF x = r THEN m ELSE h[x]]

\* seq without repeated elements, in order of first occurrence
RECURSIVE Dedup(_)
Dedup(seq) ==
    IF seq = <<>> THEN <<>>
    ELSE LET front == Dedup(SubSeq(seq, 1, Len(seq) - 1))
             last == seq[Len(seq)]
         IN IF \E i \in 1..Len(front) : front[i] = last THEN front
            ELSE Append(front, last)

IndexOf(seq, x) == CHOOSE i \in 1..Len(seq) : seq[i] = x

\* Objects no longer referenced from the working set or the store are
\* reclaimed; the live ones are renumbered in order of first reference.
Collect(ag) ==
    LET live == Dedup(DictValues(ag.persistent_models) \o ag.models) IN
    [ag EXCEPT
       !.heap = [n \in 1..Len(live) |-> ag.heap[live[n]]],
       !.models = [i \in 1..Len(ag.models) |-> IndexOf(live, ag.models[i])],
       !.persistent_models =
           [i \in 1..Len(ag.persistent_models) |->
               [key |-> ag.persistent_models[i].key,
                ref |-> IndexOf(live, ag.persistent_models[i].ref)]]]

\* the store with every reference replaced by the object it points to
Deref(pm, h) == [i \in 1..Len(pm) |-> [key |-> pm[i].key, value |-> h[pm[i].ref]]]

----------------------------------------------------------------------------
(* Tools: src/models.py, src/operations.py *)

\* Python keyword-argument binding of call(**args)
Binds(required, optional, args) ==
    /\ required \subseteq DOMAIN args
    /\ DOMAIN args \subseteq (required \cup optional)

Raise(e) == [raised |-> e]
Return(v) == [raised |-> "", value |-> v]

\* The TypeError of a call whose keyword arguments do not bind: an unknown
\* keyword is reported first ("got an unexpected keyword argument", naming
\* one of them), else the missing parameters are ("missing ... required
\* positional arguments", naming all of them).
BindError(required, optional, args) ==
    LET unexpected == DOMAIN args \ (required \cup optional)
        missing == required \ DOMAIN args
    IN IF unexpected # {}
       THEN [raised |-> "TypeError", message |-> "unexpected", names |-> unexpected]
       ELSE [raised |-> "TypeError", message |-> "missing", names |-> missing]

ModelCube_call(args) ==
    IF ~Binds({"name", "width", "height", "depth"}, {}, args)
    THEN BindError({"name", "width", "height", "depth"}, {}, args)
    ELSE Return([name |-> args.name, type |-> "cube",
                 coord_x |-> 0, coord_y |-> 0, coord_z |-> 0,
                 box_size |-> <<args.width, args.height, args.depth>>,
                 orientation_pitch |-> 0, orientation_yaw |-> 0,
                 orientation_roll |-> 0,
                 model_data |-> [width |-> args.width, height |-> args.height,
                                 depth |-> args.depth]])

ModelCylinder_call(args) ==
    IF ~Binds({"name", "radius_x", "radius_y", "height"},
              {"coord_x", "coord_y", "coord_z"}, args)
    THEN BindError({"name", "radius_x", "radius_y", "height"},
                   {"coord_x", "coord_y", "coord_z"}, args)
    ELSE Return([name |-> args.name, type |-> "cylinder",
                 coord_x |-> Get(args, "coord_x", 0),
                 coord_y |-> Get(args, "coord_y", 0),
                 coord_z |-> Get(args, "coord_z", 0),
                 box_size |-> <<args.radius_x * 2, args.radius_y * 2, args.height>>,
                 orientation_pitch |-> 0, orientation_yaw |-> 0,
                 orientation_roll |-> 0,
                 model_data |-> [radius_x |-> args.radius_x,
                                 radius_y |-> args.radius_y,
                                 height |-> args.height]])

ModelHalfCylinder_call(args) ==
    IF ~Binds({"name", "radius_x", "radius_y", "height"}, {}, args)
    THEN BindError({"name", "radius_x", "radius_y", "height"}, {}, args)
    ELSE Return([name |-> args.name, type |-> "half cylinder",
                 coord_x |-> 0, coord_y |-> 0, coord_z |-> 0,
                 box_size |-> <<args.radius_x * 2, args.radius_y * 2, args.height>>,
                 orientation_pitch |-> 0, orientation_yaw |-> 0,
                 orientation_roll |-> 0,
                 model_data |-> [radius_x |-> args.radius_x,
                                 radius_y |-> args.radius_y,
                                 height |-> args.height]])

\* the characters int() reads as a digit
IsDecimal(c) == c \in {"0", "1", "2", "3", "4", "5", "6", "7", "8", "9"}

\* str.isdigit() on one character: also true of a superscript digit (written
\* "^2" here), which int() rejects
IsDigit(c) == IsDecimal(c) \/ c = "^2"

\* int() of one digit character
DigitValue(c) ==
    CASE c = "0" -> 0 [] c = "1" -> 1 [] c = "2" -> 2 [] c = "3" -> 3
      [] c = "4" -> 4 [] c = "5" -> 5 [] c = "6" -> 6 [] c = "7" -> 7
      [] c = "8" -> 8 [] c = "9" -> 9

ModelNACA4_call_atleast4(args) ==
    IF ~Binds({"name", "naca_digits", "chord_length", "thickness"},
              {"resolution", "coord_x", "coord_y", "coord_z"}, args)
    THEN BindError({"name", "naca_digits", "chord_length", "thickness"},
                   {"resolution", "coord_x", "coord_y", "coord_z"}, args)
    ELSE LET d == args.naca_digits IN
         IF Len(d) < 4 \/ ~(\A i \in 1..Len(d) : IsDecimal(d[i]))
         THEN Raise("ValueError")
         ELSE Return([name |-> args.name, type |-> "naca4",
                      coord_x |-> 0, coord_y |-> 0, coord_z |-> 0,
                      box_size |-> <<args.chord_length, args.thickness, 0>>,
                      orientation_pitch |-> 0, orientation_yaw |-> 0,
                      orientation_roll |-> 0,
                      model_data |-> [naca_digits |-> d]])

\* naca_digits is a sequence of characters; camber m is kept in 1/100,
\* camber position p in 1/10 and thickness ratio t in 1/100.
ModelNACA4_call(args) ==
    IF ~Binds({"name", "naca_digits", "chord_length", "thickness"},
              {"resolution", "coord_x", "coord_y", "coord_z"}, args)
    THEN BindError({"name", "naca_digits", "chord_length", "thickness"},
                   {"resolution", "coord_x", "coord_y", "coord_z"}, args)
    ELSE LET d == args.naca_digits IN
         IF Len(d) # 4 \/ ~(\A i \in 1..Len(d) : IsDigit(d[i]))
         THEN Raise("ValueError")
         \* int(naca_digits[0]) ... int(naca_digits[2:4])
         ELSE IF ~(\A i \in 1..Len(d) : IsDecimal(d[i]))
         THEN Raise("ValueError")
         ELSE LET m == DigitValue(d[1])
                  p == DigitValue(d[2])
                  t == 10 * DigitValue(d[3]) + DigitValue(d[4])
              IN Return([name |-> args.name, type |-> "naca4",
                         coord_x |-> Get(args, "coord_x", 0),
                         coord_y |-> Get(args, "coord_y", 0),
                         coord_z |-> Get(args, "coord_z", 0),
                         box_size |-> <<args.chord_length, args.thickness,
                                        (args.chord_length * t * 2) \div 100>>,
                         orientation_pitch |-> 0, orientation_yaw |-> 0,
                         orientation_roll |-> 0,
                         model_data |-> [naca_digits |-> d,
                                         chord_length |-> args.chord_length,
                                         sheet_thickness |-> args.thickness,
                                         resolution |-> Get(args, "resolution", 50),
                                         max_camber |-> m,
                                         max_camber_position |-> p,
                                         thickness_ratio |-> t,
                                         airfoil_type |-> "naca4"]])

\* A model name is a string; the other JSON values used as names here are
\* numbers.
IsStr(v) == v \in STRING

ModelRigidTransform_call(all_models, args) ==
    IF ~Binds({"model"}, {"translation", "rotation", "scale"}, args)
    THEN BindError({"model"}, {"translation", "rotation", "scale"}, args)
    ELSE IF ~IsStr(args.model)
    THEN Raise("ValueError")
    ELSE Return([type |-> "transform_rigid",
                 models |-> <<args.model>>,
                 parameters |-> [translation |-> Get(args, "translation", <<0, 0, 0>>),
                                 rotation |-> Get(args, "rotation", <<0, 0, 0>>),
                                 scale |-> Get(args, "scale", 1)]])

\* gen_tool(): the registered tools, in order
gen_tool == <<"Cube", "Cylinder", "HalfCylinder", "NACA4", "transform_rigid">>

\* tool.call(**args) from the model branch of dispatch
CallModel(tool, args) ==
    CASE tool = "Cube" -> ModelCube_call(args)
      [] tool = "Cylinder" -> ModelCylinder_call(args)
      [] tool = "HalfCylinder" -> ModelHalfCylinder_call(args)
      [] tool = "NACA4" -> ModelNACA4_call(args)
      \* ModelRigidTransform.call(**args) lacks the positional `models`
      [] tool = "transform_rigid" -> Raise("TypeError")

\* tool.call(all_available_models, **args) from the operation branch
CallOperation(tool, all_models, args) ==
    IF tool = "transform_rigid"
    THEN ModelRigidTransform_call(all_models, args)
    \* a model tool binds the list to `name`; a `name` keyword then clashes
    ELSE Raise("TypeError")

----------------------------------------------------------------------------
(* Model: src/if_model.py.  The free-text description is left out. *)

\* Model.to_dict
to_dict(m) ==
    [name |-> m.name, type |-> m.type,
     coord_x |-> m.coord_x, coord_y |-> m.coord_y, coord_z |-> m.coord_z,
     box_size |-> m.box_size,
     orientation_pitch |-> m.orientation_pitch,
     orientation_yaw |-> m.orientation_yaw,
     orientation_roll |-> m.orientation_roll,
     model_data |-> m.model_data]

\* the body of from_dict(cls, data): cls(...) is a call of the first argument;
\* a dict is not callable
from_dict(cls, data) ==
    IF cls # "Model" THEN Raise("TypeError")
    ELSE Return([name |-> Get(data, "name", ""), type |-> Get(data, "type", ""),
                 coord_x |-> Get(data, "coord_x", 0),
                 coord_y |-> Get(data, "coord_y", 0),
                 coord_z |-> Get(data, "coord_z", 0),
                 box_size |-> Get(data, "box_size", <<0, 0, 0>>),
                 orientation_pitch |-> Get(data, "orientation_pitch", None),
                 orientation_yaw |-> Get(data, "orientation_yaw", None),
                 orientation_roll |-> Get(data, "orientation_roll", None),
                 model_data |-> Get(data, "model_data", None)])

\* Model.from_dict(*argv): from_dict is defined without @classmethod, so the
\* class attribute is the plain function of two parameters
Model_from_dict(argv) ==
    IF Len(argv) = 2 THEN from_dict(argv[1], argv[2])
    ELSE [raised |-> "TypeError", message |-> "missing", names |-> {"data"}]

----------------------------------------------------------------------------
(* Agent: src/agent.py *)

\* The agent's mutable state as one value
AgentState == [heap |-> heap, models |-> models, operations |-> operations,
               persistent_models |-> persistent_models, raised |-> ""]

\* next((t for t in self.tools if t.name == tool_name), None)
FindTool(tool_name) == \E i \in 1..Len(gen_tool) : gen_tool[i] = tool_name

\* `target_model not in self.models`: list membership is by identity or by
\* dataclass equality (equality of every field)
ListContains(h, ms, r) == \E i \in 1..Len(ms) : ms[i] = r \/ h[ms[i]] = h[r]

\* The values json.loads returns: a list, an object, a number, a string of
\* len characters; and the texts null and one that is not JSON
JList(items) == [json |-> "list", items |-> items]
JObject(item) == [json |-> "object", value |-> item]
JNumber == [json |-> "number"]
JString(n) == [json |-> "string", len |-> n]
JNull == [json |-> "null"]
Invalid == [json |-> "invalid"]

\* an element of the parsed list that is neither None nor a dict
IsScalar(item) == item # None /\ "json" \in DOMAIN item

\* model branch, agent.py lines 214-219
DispatchModel(ag, tool_name, args) ==
    LET res == CallModel(tool_name, args) IN
    IF res.raised # "" THEN [ag EXCEPT !.raised = res.raised]
    ELSE LET r == Alloc(ag.heap) IN
         [ag EXCEPT !.heap = Store(ag.heap, r, res.value),
                    !.models = Append(@, r),
                    !.persistent_models = DictSet(@, res.value.name, r)]

DispatchOperation_noguard(ag, tool_name, args) ==
    LET all_available_models == DictValues(ag.persistent_models) \o ag.models
        res == CallOperation(tool_name, all_available_models, args)
    IN
    IF res.raised # "" THEN [ag EXCEPT !.raised = res.raised]
    ELSE LET ag1 == [ag EXCEPT !.operations = Append(@, res.value)]
             target_model_name == Get(args, "model", "")
         IN IF DictHas(ag.persistent_models, target_model_name)
            THEN [ag1 EXCEPT !.models =
                     Append(@, DictGet(ag.persistent_models, target_model_name))]
            ELSE ag1

DispatchOperation_copy(ag, tool_name, args) ==
    LET all_available_models == DictValues(ag.persistent_models) \o ag.models
        res == CallOperation(tool_name, all_available_models, args)
    IN
    IF res.raised # "" THEN [ag EXCEPT !.raised = res.raised]
    ELSE LET ag1 == [ag EXCEPT !.operations = Append(@, res.value)]
             target_model_name == Get(args, "model", "")
         IN IF DictHas(ag.persistent_models, target_model_name)
            THEN LET target_model == DictGet(ag.persistent_models, target_model_name)
                     r == Alloc(ag.heap)
                 IN IF ~ListContains(ag.heap, ag.models, target_model)
                    THEN [ag1 EXCEPT !.heap = Store(ag.heap, r, ag.heap[target_model]),
                                     !.models = Append(@, r)]
                    ELSE ag1
            ELSE ag1

\* operation branch, agent.py lines 220-236
DispatchOperation(ag, tool_name, args) ==
    LET all_available_models == DictValues(ag.persistent_models) \o ag.models
        res == CallOperation(tool_name, all_available_models, args)
    IN
    IF res.raised # "" THEN [ag EXCEPT !.raised = res.raised]
    ELSE LET ag1 == [ag EXCEPT !.operations = Append(@, res.value)]
             target_model_name == Get(args, "model", "")
         IN IF DictHas(ag.persistent_models, target_model_name)
            THEN LET target_model == DictGet(ag.persistent_models, target_model_name)
                 IN IF ~ListContains(ag.heap, ag.models, target_model)
                    THEN [ag1 EXCEPT !.models = Append(@, target_model)]
                    ELSE ag1
            ELSE ag1

DispatchItem_strict(ag, item) ==
    IF item = None \/ "tool" \notin DOMAIN item THEN ag
    ELSE LET tool_name == item.tool IN
         IF ~FindTool(tool_name) THEN [ag EXCEPT !.raised = "ToolNotFound"]
         ELSE IF Get(item, "has_content", FALSE)
         THEN LET tool_type == Get(item, "tool_type", "")
                  args == Get(item, "tool_parameters", EmptyDict)
              IN IF tool_type = "model" THEN DispatchModel(ag, tool_name, args)
                 ELSE IF tool_type = "operation"
                 THEN DispatchOperation(ag, tool_name, args)
                 ELSE ag
         ELSE ag

\* one iteration of the loop over the parsed records, agent.py lines 201-238
DispatchItem(ag, item) ==
    IF item = None \/ "tool" \notin DOMAIN item THEN ag
    ELSE LET tool_name == item.tool IN
         IF FindTool(tool_name) /\ Get(item, "has_content", FALSE)
         THEN LET tool_type == Get(item, "tool_type", "")
                  args == Get(item, "tool_parameters", EmptyDict)
              IN IF tool_type = "model" THEN DispatchModel(ag, tool_name, args)
                 ELSE IF tool_type = "operation"
                 THEN DispatchOperation(ag, tool_name, args)
                 ELSE ag
         ELSE ag

\* Agent.handle_chat_response on parsed data: the loop stops at the first
\* exception, which is not a JSONDecodeError and so leaves the method
RECURSIVE handle_chat_response(_, _, _)
handle_chat_response(ag, data, i) ==
    IF i > Len(data) \/ ag.raised # "" THEN ag
    \* item.keys() of a number, a string or a list
    ELSE IF IsScalar(data[i]) THEN [ag EXCEPT !.raised = "AttributeError"]
    ELSE handle_chat_response(DispatchItem(ag, data[i]), data, i + 1)

\* parse_json: None for text that json.loads rejects (the JSONDecodeError is
\* printed) and for the text null
parse_json(text) == IF text.json \in {"invalid", "null"} THEN None ELSE text

\* data.append(d), [data]: a dict becomes an element of the list
Element(d) == IF d # None /\ d.json = "object" THEN d.value ELSE d

\* lines 183-198: the parsed blocks of a response with several fenced blocks,
\* a list extends data and any other value is appended
RECURSIVE CollectBlocks(_, _)
CollectBlocks(blocks, i) ==
    IF i = 0 THEN <<>>
    ELSE LET d == parse_json(blocks[i]) IN
         CollectBlocks(blocks, i - 1) \o
         (IF d # None /\ d.json = "list" THEN d.items ELSE <<Element(d)>>)

\* handle_chat_response lines 166-198: the value of `data`
ParsedData(response) ==
    IF ~response.fenced THEN parse_json(response.blocks[1])
    ELSE IF Len(response.blocks) = 1
    THEN LET data == parse_json(response.blocks[1]) IN
         IF data # None /\ data.json = "object" THEN JList(<<data.value>>)
         ELSE data
    ELSE JList(CollectBlocks(response.blocks, Len(response.blocks)))

\* handle_chat_response(response): `for item in data` (line 201) raises
\* TypeError for None and a number, iterates the characters of a string and
\* the keys of a dict, whose .keys() raises AttributeError, and the elements
\* of a list
handle_chat_response_text(ag, response) ==
    LET data == ParsedData(response) IN
    IF data = None \/ data.json = "number" THEN [ag EXCEPT !.raised = "TypeError"]
    ELSE IF data.json = "string"
    THEN IF data.len = 0 THEN ag ELSE [ag EXCEPT !.raised = "AttributeError"]
    ELSE IF data.json = "object"
    THEN IF DOMAIN data.value = {} THEN ag
         ELSE [ag EXCEPT !.raised = "AttributeError"]
    ELSE handle_chat_response(ag, data.items, 1)

reset_models_also_persistent(ag) ==
    [ag EXCEPT !.models = <<>>, !.operations = <<>>, !.persistent_models = <<>>]

\* Agent.add_to_conversation
add_to_conversation(history, role) ==
    Append(history, [role |-> role, timestamp |-> Len(history)])

\* Agent.reset_models
reset_models(ag) == [ag EXCEPT !.models = <<>>, !.operations = <<>>]

\* Agent.clear_all_models
clear_all_models(ag) ==
    [ag EXCEPT !.models = <<>>, !.operations = <<>>, !.persistent_models = <<>>]

----------------------------------------------------------------------------
(* BackendTrimesh.transform: src/backend_trimesh.py *)

Matches_any(m, o) == TRUE

\* m.name == o.models[0]
Matches(m, o) == m.name = o.models[1]

\* translation or rotation component k, 0 when the vector is too short
Component(v, k) == IF Len(v) >= k THEN v[k] ELSE 0

Short(o) == Len(o.parameters.translation) < 3 \/ Len(o.parameters.rotation) < 3

ApplyRigid_assign(m, o) ==
    LET t == o.parameters.translation
        r == o.parameters.rotation
        s == o.parameters.scale
    IN IF Short(o) THEN [raised |-> "IndexError", m |-> m]
       ELSE [raised |-> "",
             m |-> [m EXCEPT !.coord_x = t[1], !.coord_y = t[2], !.coord_z = t[3],
                             !.orientation_pitch = r[1], !.orientation_yaw = r[2],
                             !.orientation_roll = r[3],
                             !.box_size = [i \in 1..Len(@) |-> @[i] * s]]]

ApplyRigid_addscale(m, o) ==
    LET t == o.parameters.translation
        r == o.parameters.rotation
        s == o.parameters.scale
    IN IF Short(o) THEN [raised |-> "IndexError", m |-> m]
       ELSE [raised |-> "",
             m |-> [m EXCEPT !.coord_x = @ + t[1], !.coord_y = @ + t[2],
                             !.coord_z = @ + t[3],
                             !.orientation_pitch = @ + r[1],
                             !.orientation_yaw = @ + r[2],
                             !.orientation_roll = @ + r[3],
                             !.box_size = [i \in 1..Len(@) |-> @[i] + s]]]

ApplyRigid_rescaledata(m, o) ==
    LET t == o.parameters.translation
        r == o.parameters.rotation
        s == o.parameters.scale
    IN IF Short(o) THEN [raised |-> "IndexError", m |-> m]
       ELSE [raised |-> "",
             m |-> [m EXCEPT !.coord_x = @ + t[1], !.coord_y = @ + t[2],
                             !.coord_z = @ + t[3],
                             !.orientation_pitch = @ + r[1],
                             !.orientation_yaw = @ + r[2],
                             !.orientation_roll = @ + r[3],
                             !.box_size = [i \in 1..Len(@) |-> @[i] * s],
                             !.model_data =
                                 [k \in DOMAIN @ |->
                                     IF k \in {"radius_x", "radius_y", "height",
                                               "width", "depth"}
                                     THEN @[k] * s ELSE @[k]]]]

\* Body of the match, lines 30-39: the assignments run in order, and an
\* index past the end of translation or rotation raises IndexError after the
\* assignments before it took effect.
ApplyRigid(m, o) ==
    LET t == o.parameters.translation
        r == o.parameters.rotation
        s == o.parameters.scale
        m1 == IF Len(t) >= 1 THEN [m EXCEPT !.coord_x = @ + t[1]] ELSE m
        m2 == IF Len(t) >= 2 THEN [m1 EXCEPT !.coord_y = @ + t[2]] ELSE m1
        m3 == IF Len(t) >= 3 THEN [m2 EXCEPT !.coord_z = @ + t[3]] ELSE m2
        m4 == IF Len(r) >= 1 THEN [m3 EXCEPT !.orientation_pitch = @ + r[1]] ELSE m3
        m5 == IF Len(r) >= 2 THEN [m4 EXCEPT !.orientation_yaw = @ + r[2]] ELSE m4
        m6 == IF Len(r) >= 3 THEN [m5 EXCEPT !.orientation_roll = @ + r[3]] ELSE m5
    IN IF Len(t) < 3 THEN [raised |-> "IndexError", m |-> m3]
       ELSE IF Len(r) < 3 THEN [raised |-> "IndexError", m |-> m6]
       ELSE [raised |-> "",
             m |-> [m6 EXCEPT !.box_size = [i \in 1..Len(@) |-> @[i] * s]]]

RECURSIVE TransformModels_break(_, _, _, _)
TransformModels_break(h, model, o, j) ==
    IF j > Len(model) THEN [heap |-> h, raised |-> ""]
    ELSE IF Matches(h[model[j]], o)
         THEN LET res == ApplyRigid(h[model[j]], o) IN
              [heap |-> [h EXCEPT ![model[j]] = res.m], raised |-> res.raised]
         ELSE TransformModels_break(h, model, o, j + 1)

\* `for m in model`, lines 28-39, for one operation o
RECURSIVE TransformModels(_, _, _, _)
TransformModels(h, model, o, j) ==
    IF j > Len(model) THEN [heap |-> h, raised |-> ""]
    ELSE IF Matches(h[model[j]], o)
         THEN LET res == ApplyRigid(h[model[j]], o)
                  h1 == [h EXCEPT ![model[j]] = res.m]
              IN IF res.raised # "" THEN [heap |-> h1, raised |-> res.raised]
                 ELSE TransformModels(h1, model, o, j + 1)
         ELSE TransformModels(h, model, o, j + 1)

\* BackendTrimesh.transform(model, operations): `for o in operations`.
\* taken[i] counts how often operation i entered the loop body.
RECURSIVE transform(_, _, _, _, _)
transform(h, model, ops, taken, i) ==
    IF i > Len(ops) THEN [heap |-> h, raised |-> "", consumed |-> taken]
    ELSE LET taken1 == [taken EXCEPT ![i] = @ + 1] IN
         IF ops[i].type = "transform_rigid"
         THEN LET res == TransformModels(h, model, ops[i], 1) IN
              IF res.raised # ""
              THEN [heap |-> res.heap, raised |-> res.raised, consumed |-> taken1]
              ELSE transform(res.heap, model, ops, taken1, i + 1)
         ELSE transform(h, model, ops, taken1, i + 1)

----------------------------------------------------------------------------
(* BackendTrimesh.render and the mesh builders: src/backend_trimesh.py.     *)
(* A mesh is described by the calls that build it: the shape handed to the  *)
(* geometry library, and the transform applied to it.  The random face      *)
(* colour is left out.                                                      *)

\* _get_transform_matrix: the translation and the three rotation angles the
\* matrix is built from
get_transform_matrix(m) ==
    [translation |-> <<m.coord_x, m.coord_y, m.coord_z>>,
     rotation |-> <<m.orientation_pitch, m.orientation_yaw, m.orientation_roll>>]

\* np.cos and np.sin of np.radians(a) for a a multiple of 90 degrees, where
\* they are whole numbers
cos_deg(a) == CASE a % 360 = 0 -> 1 [] a % 360 = 180 -> -1 [] OTHER -> 0
sin_deg(a) == CASE a % 360 = 90 -> 1 [] a % 360 = 270 -> -1 [] OTHER -> 0

\* trimesh.transformations.rotation_matrix(angle, direction) for the unit
\* vectors of the axes: the homogeneous matrix of the right-handed rotation
rotation_matrix(angle, direction) ==
    LET c == cos_deg(angle)
        sn == sin_deg(angle)
    IN CASE direction = <<1, 0, 0>> ->
                <<(<<1, 0, 0, 0>>), <<0, c, -sn, 0>>, <<0, sn, c, 0>>, <<0, 0, 0, 1>>>>
         [] direction = <<0, 1, 0>> ->
                <<(<<c, 0, sn, 0>>), <<0, 1, 0, 0>>, <<-sn, 0, c, 0>>, <<0, 0, 0, 1>>>>
         [] direction = <<0, 0, 1>> ->
                <<(<<c, -sn, 0, 0>>), <<sn, c, 0, 0>>, <<0, 0, 1, 0>>, <<0, 0, 0, 1>>>>

\* np.dot of two 4x4 matrices
dot(A, B) ==
    [i \in 1..4 |-> [j \in 1..4 |->
        A[i][1] * B[1][j] + A[i][2] * B[2][j] + A[i][3] * B[3][j]
            + A[i][4] * B[4][j]]]

transform_matrix_xyz(m) ==
    LET translation == <<m.coord_x, m.coord_y, m.coord_z>>
        Rx == rotation_matrix(m.orientation_pitch, <<1, 0, 0>>)
        Ry == rotation_matrix(m.orientation_yaw, <<0, 1, 0>>)
        Rz == rotation_matrix(m.orientation_roll, <<0, 0, 1>>)
        rotation == dot(dot(Rx, Ry), Rz)
    IN [i \in 1..4 |-> [j \in 1..4 |->
           IF i <= 3 /\ j = 4 THEN translation[i] ELSE rotation[i][j]]]

\* _get_transform_matrix, lines 280-298: the 4x4 matrix, for angles that are
\* multiples of 90 degrees
transform_matrix(m) ==
    LET translation == <<m.coord_x, m.coord_y, m.coord_z>>
        Rx == rotation_matrix(m.orientation_pitch, <<1, 0, 0>>)
        Ry == rotation_matrix(m.orientation_yaw, <<0, 1, 0>>)
        Rz == rotation_matrix(m.orientation_roll, <<0, 0, 1>>)
        rotation == dot(dot(Rz, Ry), Rx)
    IN [i \in 1..4 |-> [j \in 1..4 |->
           IF i <= 3 /\ j = 4 THEN translation[i] ELSE rotation[i][j]]]

\* mesh.apply_transform(matrix) on one vertex: the first three components
\* of matrix . (v, 1)
transform_point(matrix, v) ==
    [i \in 1..3 |->
        matrix[i][1] * v[1] + matrix[i][2] * v[2] + matrix[i][3] * v[3]
            + matrix[i][4]]

\* mesh.apply_transform(matrix)
apply_transform(mesh, matrix) ==
    [k \in DOMAIN mesh \cup {"transform"} |->
        IF k = "transform" THEN matrix ELSE mesh[k]]

\* trimesh.creation.box(extents)
box(extents) == [kind |-> "box", extents |-> extents]

create_cube_mesh_nominal(m) ==
    IF Len(m.box_size) # 3 THEN Raise("ValueError")
    ELSE Return(apply_transform(
             box(<<m.model_data.width, m.model_data.height, m.model_data.depth>>),
             get_transform_matrix(m)))

\* _create_cube_mesh
create_cube_mesh(m) ==
    IF Len(m.box_size) # 3 THEN Raise("ValueError")
    ELSE Return(apply_transform(box(m.box_size), get_transform_matrix(m)))

\* x / y of two numbers, as a fraction
Ratio(x, y) == [num |-> x, den |-> y]

\* x / 2; the box_size components a default is taken from are even
Half(x) == x \div 2

\* Lines 113-115 and 141-143: model.model_data.get(key, default).  The
\* attribute .get of a model_data that is None raises before the defaults,
\* which index box_size, are evaluated.
cylinder_parameters(m) ==
    IF m.model_data = None THEN Raise("AttributeError")
    ELSE IF Len(m.box_size) < 3 THEN Raise("IndexError")
    ELSE Return([radius_x |-> Get(m.model_data, "radius_x", Half(m.box_size[1])),
                 radius_y |-> Get(m.model_data, "radius_y", Half(m.box_size[2])),
                 height |-> Get(m.model_data, "height", m.box_size[3])])

\* Lines 118-128 and 147-155: trimesh.creation.cylinder(radius=avg_radius,
\* height) and the scale to an elliptical cross-section.  avg_radius is kept
\* doubled (radius2 = radius_x + radius_y); radius_x / avg_radius divides by
\* zero when the radii differ and sum to zero.
full_cylinder(m) ==
    LET p == cylinder_parameters(m) IN
    IF p.raised # "" THEN p
    ELSE LET radius_x == p.value.radius_x
             radius_y == p.value.radius_y
             height == p.value.height
             radius2 == radius_x + radius_y
         IN IF radius_x # radius_y /\ radius2 = 0 THEN Raise("ZeroDivisionError")
            ELSE Return([kind |-> "cylinder", radius2 |-> radius2,
                         height |-> height,
                         scale |-> IF radius_x # radius_y
                                   THEN <<Ratio(2 * radius_x, radius2),
                                          Ratio(2 * radius_y, radius2)>>
                                   ELSE <<Ratio(1, 1), Ratio(1, 1)>>])

\* _create_cylinder_mesh
create_cylinder_mesh(m) ==
    LET cylinder == full_cylinder(m) IN
    IF cylinder.raised # "" THEN cylinder
    ELSE Return(apply_transform(cylinder.value, get_transform_matrix(m)))

\* Lines 159-161: the box the cylinder is cut with, moved by the
\* translation matrix
cutting_box(m) ==
    LET p == cylinder_parameters(m).value IN
    apply_transform(box(<<p.radius_x * 4, p.radius_y * 2, p.height * 2>>),
                    [translation |-> <<p.radius_x, 0, 0>>,
                     rotation |-> <<0, 0, 0>>])

\* _create_half_cylinder_mesh; boolean_fails: full_cylinder.difference(...)
\* raises
create_half_cylinder_mesh(m, boolean_fails) ==
    LET cylinder == full_cylinder(m) IN
    IF cylinder.raised # "" THEN cylinder
    ELSE LET half_cylinder ==
                 IF boolean_fails THEN cylinder.value
                 ELSE [kind |-> "difference", of |-> cylinder.value,
                       by |-> cutting_box(m)]
         IN Return(apply_transform(half_cylinder, get_transform_matrix(m)))

\* ModelNACA4.generate_naca4_coordinates raises: np.linspace(0, pi, resolution)
\* rejects a negative number of samples
generate_naca4_coordinates_raises(naca_digits, chord_length, resolution) ==
    resolution < 0

\* _create_naca4_mesh; mesh_fails: the Trimesh constructor, fix_normals or
\* apply_transform raises inside the try block of lines 254-264.  The airfoil
\* mesh is described by the parameters its vertices are computed from.
create_naca4_mesh(m, mesh_fails) ==
    LET naca_digits == m.model_data.naca_digits
        chord_length == m.model_data.chord_length
        thickness == m.model_data.sheet_thickness
        resolution == m.model_data.resolution
    IN IF generate_naca4_coordinates_raises(naca_digits, chord_length, resolution)
       THEN Raise("ValueError")
       ELSE IF mesh_fails
       \* the fallback box; its third extent is chord_length * 0.1
       THEN Return(apply_transform(
                box(<<chord_length, thickness, chord_length \div 10>>),
                get_transform_matrix(m)))
       ELSE Return(apply_transform(
                [kind |-> "airfoil", naca_digits |-> naca_digits,
                 chord_length |-> chord_length, thickness |-> thickness,
                 resolution |-> resolution],
                get_transform_matrix(m)))

\* _create_mesh_from_model; fails: a call into the geometry library that the
\* builder guards with try/except raises
create_mesh_from_model(m, fails) ==
    CASE m.type = "cube" -> create_cube_mesh(m)
      [] m.type = "cylinder" -> create_cylinder_mesh(m)
      [] m.type = "half cylinder" -> create_half_cylinder_mesh(m, fails)
      [] m.type = "naca4" -> create_naca4_mesh(m, fails)
      [] OTHER -> Return(None)

\* BackendTrimesh.render(models), lines 49-59: the scene is built anew, one
\* geometry per model whose builder returns a mesh; an exception of a builder
\* leaves render with the scene built so far.  fails: the list positions at
\* which the geometry library fails.  A failure of scene.show() is caught.
RECURSIVE render(_, _, _, _, _)
render(h, ms, fails, i, sc) ==
    IF i > Len(ms) THEN [scene |-> sc, raised |-> ""]
    ELSE LET m == h[ms[i]]
             mesh == create_mesh_from_model(m, i \in fails)
         IN IF mesh.raised # "" THEN [scene |-> sc, raised |-> mesh.raised]
            ELSE IF mesh.value = None THEN render(h, ms, fails, i + 1, sc)
            ELSE render(h, ms, fails, i + 1,
                        Append(sc, [node_name |-> <<m.name, i - 1>>,
                                    mesh |-> mesh.value]))

----------------------------------------------------------------------------
(* ModelNACA4.generate_naca4_coordinates: src/models.py lines 410-472.      *)
(* A float is an integer counting units of 1 / Scale, products and          *)
(* quotients are rounded down.                                              *)

Scale == 10000

Mul(a, b) == (a * b) \div Scale

Div(a, b) == (a * Scale) \div b

\* the largest r of lo..hi with r * r <= v
RECURSIVE Bisect(_, _, _)
Bisect(lo, hi, v) ==
    IF lo = hi THEN lo
    ELSE LET mid == (lo + hi + 1) \div 2 IN
         IF mid * mid <= v THEN Bisect(mid, hi, v) ELSE Bisect(lo, mid - 1, v)

\* np.sqrt
Sqrt(a) == Bisect(0, 3 * Scale, a * Scale)

\* np.cos of 0, 15, ..., 90 degrees
CosTable == <<10000, 9659, 8660, 7071, 5000, 2588, 0>>

\* np.cos of k * 15 degrees, k in 0..12: cos(0) is 1 and cos(pi) is -1
Cos(k) == IF k <= 6 THEN CosTable[k + 1] ELSE -CosTable[13 - k]

\* np.linspace(0, np.pi, resolution) in steps of 15 degrees; the first
\* sample is 0 and, when there are two or more, the last is pi
linspace(resolution) ==
    [i \in 1..resolution |->
        IF resolution = 1 THEN 0 ELSE ((i - 1) * 12) \div (resolution - 1)]

\* line 432: x = chord_length * (1 - np.cos(beta)) / 2
CosineSpacing(chord_length, beta) ==
    Mul(chord_length, Scale - Cos(beta)) \div 2

\* lines 435-441: the bracket of the thickness distribution at u = x / chord
ThicknessPolynomial_steep(u) ==
    Mul(2969, Sqrt(u)) - Mul(12600, u) - Mul(3516, Mul(u, u))
        + Mul(2843, Mul(Mul(u, u), u)) - Mul(1015, Mul(Mul(u, u), Mul(u, u)))

ThicknessPolynomial(u) ==
    Mul(2969, Sqrt(u)) - Mul(1260, u) - Mul(3516, Mul(u, u))
        + Mul(2843, Mul(Mul(u, u), u)) - Mul(1015, Mul(Mul(u, u), Mul(u, u)))

\* line 444: m == 0 or p == 0
IsSymmetric_nocamber(m, p) == m = 0

IsSymmetric(m, p) == m = 0 \/ p = 0

\* lines 454-461: camber yc and slope dyc_dx at u = x / chord.  A division
\* of an array by a float zero gives nan or inf and a warning, not an
\* exception: the sample is then marked nan.
Camber(m, p, chord_length, u) ==
    LET p2 == IF u <= p THEN Mul(p, p) ELSE Mul(Scale - p, Scale - p)
        shape == IF u <= p THEN 2 * Mul(p, u) - Mul(u, u)
                 ELSE (Scale - 2 * p) + 2 * Mul(p, u) - Mul(u, u)
    IN IF p2 = 0 THEN [nan |-> TRUE, yc |-> 0, dyc_dx |-> 0]
       ELSE [nan |-> FALSE,
             yc |-> Div(Mul(Mul(m, chord_length), shape), p2),
             dyc_dx |-> Div(Mul(2 * m, p - u), p2)]

\* one sample of the curves, lines 432-470, at angle beta; with
\* theta = arctan(dyc_dx), cos(theta) = 1 / sqrt(1 + dyc_dx^2) and
\* sin(theta) = dyc_dx / sqrt(1 + dyc_dx^2)
Sample(m, p, t, chord_length, beta) ==
    LET x == CosineSpacing(chord_length, beta)
        u == Div(x, chord_length)
        yt == Mul(5 * Mul(t, chord_length), ThicknessPolynomial(u))
        camber == IF IsSymmetric(m, p)
                  THEN [nan |-> FALSE, yc |-> 0, dyc_dx |-> 0]
                  ELSE Camber(m, p, chord_length, u)
        hyp == Sqrt(Scale + Mul(camber.dyc_dx, camber.dyc_dx))
        cos_theta == Div(Scale, hyp)
        sin_theta == Div(camber.dyc_dx, hyp)
    IN [nan |-> camber.nan,
        x |-> x,
        x_upper |-> x - Mul(yt, sin_theta),
        y_upper |-> camber.yc + Mul(yt, cos_theta),
        x_lower |-> x + Mul(yt, sin_theta),
        y_lower |-> camber.yc - Mul(yt, cos_theta)]

\* generate_naca4_coordinates(naca_digits, chord_length, resolution): the
\* samples of x, x_upper, y_upper, x_lower, y_lower, and the branch taken at
\* line 444.  chord_length is a whole number.
generate_naca4_coordinates(naca_digits, chord_length, resolution) ==
    LET m == DigitValue(naca_digits[1]) * (Scale \div 100)
        p == DigitValue(naca_digits[2]) * (Scale \div 10)
        t == (10 * DigitValue(naca_digits[3]) + DigitValue(naca_digits[4]))
                 * (Scale \div 100)
        beta == linspace(resolution)
        s == [i \in 1..resolution |->
                 Sample(m, p, t, chord_length * Scale, beta[i])]
    IN IF generate_naca4_coordinates_raises(naca_digits, chord_length, resolution)
       THEN Raise("ValueError")
       ELSE Return([symmetric |-> IsSymmetric(m, p),
                    nan |-> \E i \in 1..resolution : s[i].nan,
                    x |-> [i \in 1..resolution |-> s[i].x],
                    x_upper |-> [i \in 1..resolution |-> s[i].x_upper],
                    y_upper |-> [i \in 1..resolution |-> s[i].y_upper],
                    x_lower |-> [i \in 1..resolution |-> s[i].x_lower],
                    y_lower |-> [i \in 1..resolution |-> s[i].y_lower]])

----------------------------------------------------------------------------
(* Tool-invocation records the upstream interface may hand to dispatch *)

Names == {"C1", "C2"}

CubeItem(n, w, h, d) ==
    [tool |-> "Cube", tool_type |-> "model", has_content |-> TRUE,
     tool_parameters |-> [name |-> n, width |-> w, height |-> h, depth |-> d]]

CylinderItem(n, rx, ry, h) ==
    [tool |-> "Cylinder", tool_type |-> "model", has_content |-> TRUE,
     tool_parameters |-> [name |-> n, radius_x |-> rx, radius_y |-> ry,
                          height |-> h]]

OpItem(n, t, r, s) ==
    [tool |-> "transform_rigid", tool_type |-> "operation", has_content |-> TRUE,
     tool_parameters |-> [model |-> n, translation |-> t, rotation |-> r,
                          scale |-> s]]

\* a NACA4 record whose designation has two characters
BadNacaItem ==
    [tool |-> "NACA4", tool_type |-> "model", has_content |-> TRUE,
     tool_parameters |-> [name |-> "C2", naca_digits |-> <<"1", "2">>,
                          chord_length |-> 50, thickness |-> 1]]

ModelItems ==
    {CubeItem("C1", 2, 2, 2), CylinderItem("C1", 1, 2, 3),
     CylinderItem("C2", 1, 2, 3)}

OperationItems ==
    {OpItem("C1", <<1, 2, 3>>, <<0, 0, 0>>, 2),
     OpItem("C1", <<1, 0, 0>>, <<10, 20, 30>>, 1),
     OpItem("C1", <<2, 0, 0>>, <<0, 0, 0>>, 1),
     OpItem("C1", <<0, 0, 0>>, <<0, 0, 0>>, 1),
     \* translation with two components
     OpItem("C2", <<1, 2>>, <<0, 0, 0>>, 2)}

Items == ModelItems \cup OperationItems \cup {BadNacaItem}

\* the responses of at most n records
Batches(n) == UNION {[1..m -> Items] : m \in 0..n}

----------------------------------------------------------------------------
(* State machine of a session driven through the Agent and backend API *)

Zeros(n) == [i \in 1..n |-> 0]

\* the agent fields after a call
SetAgent(ag) ==
    LET live == Collect(ag) IN
    /\ models' = live.models
    /\ operations' = live.operations
    /\ persistent_models' = live.persistent_models
    /\ heap' = live.heap

Init ==
    /\ heap = <<>>
    /\ models = <<>>
    /\ operations = <<>>
    /\ persistent_models = <<>>
    /\ conversation_history = <<>>
    /\ batch = <<>>
    /\ pc = "idle"
    /\ conversation_turn = 0
    /\ error = ""
    /\ consumed = <<>>
    /\ before = <<>>
    /\ records_seen = 0
    /\ scene = <<>>
    /\ invocation = None
    /\ returned = None

\* agent.reset_models() between two turns
ResetModels ==
    /\ pc = "idle"
    /\ SetAgent(reset_models(AgentState))
    /\ consumed' = <<>>
    /\ before' = Deref(persistent_models, heap)
    /\ pc' = "reset"
    /\ error' = ""
    /\ UNCHANGED <<conversation_history, batch, conversation_turn, records_seen,
                   scene, direct>>

\* agent.clear_all_models() between two turns
ClearAllModels ==
    /\ pc = "idle"
    /\ SetAgent(clear_all_models(AgentState))
    /\ consumed' = <<>>
    /\ before' = <<>>
    /\ error' = ""
    /\ UNCHANGED <<conversation_history, batch, pc, conversation_turn,
                   records_seen, scene, direct>>

\* Agent.input, lines 85 and 135
InputHistory ==
    conversation_history' =
        add_to_conversation(add_to_conversation(conversation_history, "user"),
                            "assistant")

\* agent.input(...): handle_chat_response on the parsed response `data`
Input(data) ==
    /\ pc \in {"idle", "reset"}
    /\ Len(conversation_history) < 2 * MaxTurns
    /\ InputHistory
    /\ records_seen' = records_seen + Len(data)
    /\ LET ag == handle_chat_response(AgentState, data, 1) IN
       /\ SetAgent(ag)
       /\ consumed' = consumed \o Zeros(Len(ag.operations) - Len(operations))
       /\ error' = ag.raised
       /\ pc' = IF ag.raised # "" THEN "idle" ELSE "dispatched"
       /\ batch' = IF ag.raised # "" THEN <<>> ELSE data
    /\ before' = <<>>
    /\ UNCHANGED <<conversation_turn, scene, direct>>

\* agent.input(...) when the AI client raises at line 110: the user entry of
\* line 85 is in the history, the exception leaves input before line 135
InputClientRaises ==
    /\ pc \in {"idle", "reset"}
    /\ Len(conversation_history) < 2 * MaxTurns
    /\ conversation_history' = add_to_conversation(conversation_history, "user")
    /\ error' = "Exception"
    /\ pc' = "idle"
    /\ UNCHANGED <<heap, models, operations, persistent_models, batch,
                   conversation_turn, consumed, before, records_seen, scene,
                   direct>>

\* backend.transform(models, ops)
Transform ==
    /\ pc = "dispatched"
    /\ LET res == transform(heap, models, operations, consumed, 1) IN
       /\ heap' = res.heap
       /\ consumed' = res.consumed
       /\ error' = res.raised
    /\ before' = heap
    /\ pc' = "transformed"
    /\ UNCHANGED <<models, operations, persistent_models, conversation_history,
                   batch, conversation_turn, records_seen, scene, direct>>

\* backend.render(transformed_models); the turn is complete
Render(fails) ==
    /\ pc = "transformed"
    /\ error = ""
    /\ LET res == render(heap, models, fails, 1, <<>>) IN
       /\ scene' = res.scene
       /\ error' = res.raised
    /\ pc' = "idle"
    /\ batch' = <<>>
    /\ before' = <<>>
    /\ conversation_turn' = conversation_turn + 1
    /\ UNCHANGED <<heap, models, operations, persistent_models,
                   conversation_history, consumed, records_seen, direct>>

\* transform raised: render is not reached, the turn ends
RenderSkipped ==
    /\ pc = "transformed"
    /\ error # ""
    /\ pc' = "idle"
    /\ batch' = <<>>
    /\ before' = <<>>
    /\ conversation_turn' = conversation_turn + 1
    /\ UNCHANGED <<heap, models, operations, persistent_models,
                   conversation_history, consumed, error, records_seen, scene,
                   direct>>

Next ==
    \/ ResetModels
    \/ ClearAllModels
    \/ \E data \in Batches(MaxRecords - records_seen) : Input(data)
    \/ Transform
    \/ \E fails \in SUBSET (1..Len(models)) : Render(fails)
    \/ RenderSkipped

Spec == Init /\ [][Next]_vars

----------------------------------------------------------------------------
(* Sessions whose responses hold at most one record and whose AI client may *)
(* raise                                                                    *)

\* the responses of at most one record, within the records left
ShortBatches == Batches(IF records_seen < MaxRecords THEN 1 ELSE 0)

NextHistory ==
    \/ ResetModels
    \/ \E data \in ShortBatches : Input(data)
    \/ InputClientRaises
    \/ Transform
    \/ Render({})
    \/ RenderSkipped

SpecHistory == Init /\ [][NextHistory]_vars

----------------------------------------------------------------------------
(* The CLI loop run_cli: src/agent.py lines 347-432 *)

\* `clear`: backend.close_display() is not a method of BackendTrimesh, the
\* AttributeError is caught by the loop's handler and the rest of the branch
\* is skipped
\* the line read at the prompt, lines 350-370: a command word, or a request
Command(word) == [command |-> word]

CliClear ==
    /\ pc = "idle"
    /\ error' = "AttributeError"
    /\ invocation' = Command("clear")
    /\ UNCHANGED <<heap, models, operations, persistent_models,
                   conversation_history, batch, pc, conversation_turn, consumed,
                   before, records_seen, scene, returned>>

\* a request after a completed turn: close_display() raises before the reset
CliRequestAfterTurn ==
    /\ pc = "idle"
    /\ conversation_turn > 0
    /\ error' = "AttributeError"
    /\ invocation' = Command("request")
    /\ UNCHANGED <<heap, models, operations, persistent_models,
                   conversation_history, batch, pc, conversation_turn, consumed,
                   before, records_seen, scene, returned>>

\* a request while conversation_turn = 0: reset_models, agent.input, and the
\* `if models or ops` test
CliRequest(data) ==
    /\ pc = "idle"
    /\ conversation_turn = 0
    /\ Len(conversation_history) < 2 * MaxTurns
    /\ InputHistory
    /\ records_seen' = records_seen + Len(data)
    /\ LET ag == handle_chat_response(reset_models(AgentState), data, 1)
           nothing == ag.models = <<>> /\ ag.operations = <<>>
       IN
       /\ SetAgent(ag)
       /\ consumed' = Zeros(Len(ag.operations))
       /\ error' = ag.raised
       /\ pc' = IF ag.raised # "" \/ nothing THEN "idle" ELSE "dispatched"
       /\ batch' = IF ag.raised # "" \/ nothing THEN <<>> ELSE data
       /\ conversation_turn' = IF ag.raised = "" /\ nothing
                               THEN conversation_turn + 1
                               ELSE conversation_turn
    /\ before' = <<>>
    /\ invocation' = Command("request")
    /\ UNCHANGED <<scene, returned>>

\* `quit`: the loop ends; the final close_display() failure is swallowed
CliQuit ==
    /\ pc = "idle"
    /\ pc' = "exit"
    /\ invocation' = Command("quit")
    /\ UNCHANGED <<heap, models, operations, persistent_models,
                   conversation_history, batch, conversation_turn, consumed,
                   error, before, records_seen, scene, returned>>

NextCli ==
    \/ CliClear
    \/ CliRequestAfterTurn
    \/ \E data \in Batches(MaxRecords - records_seen) : CliRequest(data)
    \/ Transform
    \/ \E fails \in SUBSET (1..Len(models)) : Render(fails)
    \/ RenderSkipped
    \/ CliQuit

SpecCli == Init /\ [][NextCli]_vars

----------------------------------------------------------------------------
(* backend.render on lists of models built by the tools: the builders'     *)
(* results, some moved by a rigid transform, and one model of a type no    *)
(* builder makes                                                           *)

\* the model a tool returns for the arguments
Built(tool, args) == CallModel(tool, args).value

\* m after a rigid transform
Moved(m, t, r, s) ==
    ApplyRigid(m, [parameters |-> [translation |-> t, rotation |-> r,
                                   scale |-> s]]).m

HalfCylinderArgs(n, rx, ry, h) ==
    [name |-> n, radius_x |-> rx, radius_y |-> ry, height |-> h]

NacaArgs(n, digits, chord, resolution) ==
    [name |-> n, naca_digits |-> digits, chord_length |-> chord,
     thickness |-> 1, resolution |-> resolution]

RenderModels ==
    {Built("Cube", CubeItem("C1", 2, 2, 2).tool_parameters),
     Built("Cylinder", [name |-> "C2", radius_x |-> 1, radius_y |-> 2,
                        height |-> 3, coord_x |-> 1]),
     Moved(Built("HalfCylinder", HalfCylinderArgs("H1", 1, 2, 3)),
           <<1, 2, 3>>, <<0, 90, 0>>, 2),
     \* radius_x = 0
     Built("HalfCylinder", HalfCylinderArgs("H2", 0, 2, 3)),
     \* radii that sum to zero
     Built("HalfCylinder", HalfCylinderArgs("H3", 1, -1, 3)),
     Moved(Built("NACA4", NacaArgs("N1", <<"2", "4", "1", "2">>, 50, 20)),
           <<5, 0, 0>>, <<0, 0, 0>>, 1),
     \* a negative number of curve points
     Built("NACA4", NacaArgs("N2", <<"0", "0", "1", "2">>, 50, -1)),
     [Built("Cube", CubeItem("S1", 2, 2, 2).tool_parameters)
         EXCEPT !.type = "sphere"],
     \* a cylinder whose model_data has no radius
     [Built("Cylinder", [name |-> "P1", radius_x |-> 1, radius_y |-> 2,
                         height |-> 3])
         EXCEPT !.model_data = [height |-> 5]],
     \* a half cylinder whose model_data has radius_x only
     [Built("HalfCylinder", HalfCylinderArgs("P2", 1, 2, 6))
         EXCEPT !.model_data = [radius_x |-> 3]],
     \* a cylinder made without model_data: the field's default, None
     [Built("Cylinder", [name |-> "P3", radius_x |-> 1, radius_y |-> 2,
                         height |-> 3])
         EXCEPT !.model_data = None]}

\* the agent holding the models of list ms, each stored under its name
RECURSIVE Holding(_, _)
Holding(ms, i) ==
    IF i = 0
    THEN [heap |-> <<>>, models |-> <<>>, operations |-> <<>>,
          persistent_models |-> <<>>, raised |-> ""]
    ELSE LET ag == Holding(ms, i - 1)
             r == Alloc(ag.heap)
         IN [ag EXCEPT !.heap = Store(ag.heap, r, ms[i]),
                       !.models = Append(@, r),
                       !.persistent_models = DictSet(@, ms[i].name, r)]

InitRender ==
    /\ \E n \in 0..MaxRecords :
          \E ms \in [1..n -> RenderModels] :
              LET ag == Collect(Holding(ms, n)) IN
              /\ heap = ag.heap
              /\ models = ag.models
              /\ persistent_models = ag.persistent_models
    /\ operations = <<>>
    /\ conversation_history = <<>>
    /\ batch = <<>>
    /\ pc = "transformed"
    /\ conversation_turn = 0
    /\ error = ""
    /\ consumed = <<>>
    /\ before = heap
    /\ records_seen = 0
    /\ scene = <<>>
    /\ invocation = None
    /\ returned = None

NextRender == \E fails \in SUBSET (1..Len(models)) : Render(fails)

SpecRender == InitRender /\ [][NextRender]_vars

----------------------------------------------------------------------------
(* Agent.handle_chat_response on one parsed response, from a new agent *)

\* has_content is false
NoContentItem == [CubeItem("C2", 2, 2, 2) EXCEPT !.has_content = FALSE]

\* no tool of the registry has this name
UnknownToolItem ==
    [tool |-> "Sphere", tool_type |-> "model", has_content |-> TRUE,
     tool_parameters |-> [name |-> "C2", radius |-> 1]]

\* a record without the key `tool`
NoToolItem ==
    [tool_type |-> "model", has_content |-> TRUE,
     tool_parameters |-> [name |-> "C2", width |-> 2, height |-> 2, depth |-> 2]]

\* a Cube record without `depth`
MissingDepthItem ==
    [tool |-> "Cube", tool_type |-> "model", has_content |-> TRUE,
     tool_parameters |-> [name |-> "C2", width |-> 2, height |-> 2]]

DispatchItems ==
    {CubeItem("C1", 2, 2, 2), CylinderItem("C2", 1, 2, 3),
     OpItem("C1", <<1, 2, 3>>, <<0, 0, 0>>, 2),
     NoContentItem, UnknownToolItem, NoToolItem, None,
     BadNacaItem, MissingDepthItem}

InitDispatch ==
    /\ heap = <<>>
    /\ models = <<>>
    /\ operations = <<>>
    /\ persistent_models = <<>>
    /\ conversation_history = <<>>
    /\ batch \in UNION {[1..n -> DispatchItems] : n \in 0..MaxBatch}
    /\ pc = "parsed"
    /\ conversation_turn = 0
    /\ error = ""
    /\ consumed = <<>>
    /\ before = <<>>
    /\ records_seen = 0
    /\ scene = <<>>
    /\ invocation = None
    /\ returned = None

\* handle_chat_response, lines 199-245, on the parsed records
Dispatch ==
    /\ pc = "parsed"
    /\ LET ag == handle_chat_response(AgentState, batch, 1) IN
       /\ SetAgent(ag)
       /\ consumed' = Zeros(Len(ag.operations))
       /\ error' = ag.raised
    /\ records_seen' = Len(batch)
    /\ pc' = "returned"
    /\ UNCHANGED <<conversation_history, batch, conversation_turn, before,
                   scene, direct>>

NextDispatch == Dispatch

SpecDispatch == InitDispatch /\ [][NextDispatch]_vars

----------------------------------------------------------------------------
(* Direct calls of the tools and of Model.to_dict / Model.from_dict *)

\* Characters of a naca_digits value.
MaxDigits == 5

\* ToolIface.tool_type as each tool's constructor sets it
ToolType(tool) == IF tool = "transform_rigid" THEN "operation" ELSE "model"

\* the parameters whose descriptor entry has "required": True
Required(tool) ==
    CASE tool = "Cube" -> {"name", "width", "height", "depth"}
      [] tool = "Cylinder" -> {"name", "radius_x", "radius_y", "height"}
      [] tool = "HalfCylinder" -> {"name", "radius_x", "radius_y", "height"}
      [] tool = "NACA4" -> {"name", "naca_digits", "chord_length", "thickness"}
      [] tool = "transform_rigid" -> {"model"}

\* the parameters whose descriptor entry is not required
Optional(tool) ==
    CASE tool = "Cube" -> {}
      [] tool = "Cylinder" -> {"coord_x", "coord_y", "coord_z"}
      [] tool = "HalfCylinder" -> {}
      [] tool = "NACA4" -> {"resolution", "coord_x", "coord_y", "coord_z"}
      [] tool = "transform_rigid" -> {"translation", "rotation", "scale"}

\* a value for every parameter of the tools, and for `size`, which is a
\* parameter of none
SampleArgs ==
    [name |-> "C1", width |-> 2, height |-> 3, depth |-> 4,
     radius_x |-> 1, radius_y |-> 2,
     coord_x |-> 1, coord_y |-> 2, coord_z |-> 3,
     naca_digits |-> <<"2", "4", "1", "2">>, chord_length |-> 50,
     thickness |-> 1, resolution |-> 20,
     model |-> "C1", translation |-> <<1, 2, 3>>, rotation |-> <<0, 90, 0>>,
     scale |-> 2, size |-> 9]

Restrict(f, S) == [k \in S |-> f[k]]

\* every tool with every subset of its parameters and of `size` supplied
SubsetInvocations ==
    {[tool |-> tool, args |-> Restrict(SampleArgs, S)] :
        tool \in Range(gen_tool),
        S \in SUBSET {"name", "width", "height", "depth", "radius_x",
                      "radius_y", "naca_digits", "chord_length", "thickness",
                      "resolution", "coord_x", "model", "scale", "size"}}

DigitStrings == UNION {[1..n -> {"1", "a", "^2"}] : n \in 0..MaxDigits}

\* the NACA4 tool with every naca_digits value
NacaInvocations ==
    {[tool |-> "NACA4",
      args |-> [name |-> "N1", naca_digits |-> d, chord_length |-> 50,
                thickness |-> 1]] : d \in DigitStrings}

Invocations ==
    {inv \in SubsetInvocations :
        DOMAIN inv.args \subseteq
            Required(inv.tool) \cup Optional(inv.tool) \cup {"size"}}
    \cup NacaInvocations

InitTool ==
    /\ heap = <<>>
    /\ models = <<>>
    /\ operations = <<>>
    /\ persistent_models = <<>>
    /\ conversation_history = <<>>
    /\ batch = <<>>
    /\ pc = "call"
    /\ conversation_turn = 0
    /\ error = ""
    /\ consumed = <<>>
    /\ before = <<>>
    /\ records_seen = 0
    /\ scene = <<>>
    /\ invocation \in Invocations
    /\ returned = None

\* tool.call(**args), or tool.call(models, **args) for an operation tool
Invoke ==
    /\ pc = "call"
    /\ returned' = IF ToolType(invocation.tool) = "operation"
                   THEN CallOperation(invocation.tool, <<>>, invocation.args)
                   ELSE CallModel(invocation.tool, invocation.args)
    /\ pc' = "called"
    /\ UNCHANGED <<heap, models, operations, persistent_models,
                   conversation_history, batch, conversation_turn, error,
                   consumed, before, records_seen, scene, invocation>>

\* Model.from_dict(m.to_dict()) on the model a tool returned
RoundTrip ==
    /\ pc = "called"
    /\ returned.raised = ""
    /\ ToolType(invocation.tool) = "model"
    /\ returned' = Model_from_dict(<<to_dict(returned.value)>>)
    /\ pc' = "converted"
    /\ UNCHANGED <<heap, models, operations, persistent_models,
                   conversation_history, batch, conversation_turn, error,
                   consumed, before, records_seen, scene, invocation>>

NextTool == Invoke \/ RoundTrip

SpecTool == InitTool /\ [][NextTool]_vars

----------------------------------------------------------------------------
(* Agent.handle_chat_response on the text of one response *)

\* the most fenced blocks of a response
MaxBlocks == 2

Texts ==
    {Invalid, JNull, JNumber, JString(0), JString(2), JObject(EmptyDict),
     JObject(CubeItem("C2", 2, 2, 2)), JList(<<>>),
     JList(<<CubeItem("C2", 2, 2, 2)>>),
     JList(<<OpItem("C1", <<1, 2, 3>>, <<0, 0, 0>>, 2)>>),
     JList(<<CubeItem("C2", 2, 2, 2), JNumber>>),
     JList(<<None, CylinderItem("C1", 1, 2, 3)>>)}

\* a response without a fenced block is one text
Responses ==
    {[fenced |-> FALSE, blocks |-> <<t>>] : t \in Texts}
    \cup {[fenced |-> TRUE, blocks |-> b] :
             b \in UNION {[1..n -> Texts] : n \in 1..MaxBlocks}}

\* a new agent, the agent after a turn that made the cube C1, and that agent
\* after reset_models
AgentsAtResponse ==
    LET made == Holding(<<Built("Cube", CubeItem("C1", 2, 2, 2).tool_parameters)>>, 1)
    IN {Holding(<<>>, 0), made, Collect(reset_models(made))}

InitParse ==
    /\ \E ag \in AgentsAtResponse :
          /\ heap = ag.heap
          /\ models = ag.models
          /\ operations = ag.operations
          /\ persistent_models = ag.persistent_models
    /\ invocation \in Responses
    /\ conversation_history = <<>>
    /\ batch = <<>>
    /\ pc = "response"
    /\ conversation_turn = 0
    /\ error = ""
    /\ consumed = <<>>
    /\ before = <<>>
    /\ records_seen = 0
    /\ scene = <<>>
    /\ returned = None

\* handle_chat_response(response)
HandleResponse ==
    /\ pc = "response"
    /\ LET ag == handle_chat_response_text(AgentState, invocation) IN
       /\ SetAgent(ag)
       /\ consumed' = Zeros(Len(ag.operations))
       /\ error' = ag.raised
    /\ pc' = "returned"
    /\ UNCHANGED <<conversation_history, batch, conversation_turn, before,
                   records_seen, scene, direct>>

NextParse == HandleResponse

SpecParse == InitParse /\ [][NextParse]_vars

----------------------------------------------------------------------------
(* ModelNACA4.generate_naca4_coordinates on one designation *)

\* designations of four digits: camber 0, 2, 9 percent at 0, 0.1, 0.4, 0.9
\* of the chord, thickness 0, 12, 99 percent
NacaCodes ==
    {<<a, b, t[1], t[2]>> :
        a \in {"0", "2", "9"}, b \in {"0", "1", "4", "9"},
        t \in {<<"0", "0">>, <<"1", "2">>, <<"9", "9">>}}

Chords == {1, 2}

\* numbers of samples whose angles are multiples of 15 degrees
Resolutions == {1, 2, 3, 4, 5, 7}

InitNaca ==
    /\ invocation \in [naca_digits : NacaCodes, chord_length : Chords,
                        resolution : Resolutions]
    /\ heap = <<>>
    /\ models = <<>>
    /\ operations = <<>>
    /\ persistent_models = <<>>
    /\ conversation_history = <<>>
    /\ batch = <<>>
    /\ pc = "call"
    /\ conversation_turn = 0
    /\ error = ""
    /\ consumed = <<>>
    /\ before = <<>>
    /\ records_seen = 0
    /\ scene = <<>>
    /\ returned = None

\* ModelNACA4.generate_naca4_coordinates(naca_digits, chord_length, resolution)
Generate ==
    /\ pc = "call"
    /\ LET res == generate_naca4_coordinates(invocation.naca_digits,
                                              invocation.chord_length,
                                              invocation.resolution)
       IN /\ error' = res.raised
          /\ returned' = IF res.raised # "" THEN None ELSE res.value
    /\ pc' = "generated"
    /\ UNCHANGED <<heap, models, operations, persistent_models,
                   conversation_history, batch, conversation_turn, consumed,
                   before, records_seen, scene, invocation>>

NextNaca == Generate

SpecNaca == InitNaca /\ [][NextNaca]_vars

----------------------------------------------------------------------------
(* The world transform of one vertex of a model's mesh *)

\* angles that are multiples of 90 degrees, some negative or past a turn
Angles == {0, 90, 180, 270, -90, 450}

Positions == {<<0, 0, 0>>, <<1, 2, 3>>}

\* vertices in the local frame, the origin among them
Vertices == {<<0, 0, 0>>, <<1, 0, 0>>, <<0, 1, 0>>, <<1, 2, 3>>}

InitPose ==
    /\ \E position \in Positions, pitch, yaw, roll \in Angles :
          heap = <<[Built("Cube", CubeItem("C1", 2, 2, 2).tool_parameters)
                       EXCEPT !.coord_x = position[1], !.coord_y = position[2],
                              !.coord_z = position[3],
                              !.orientation_pitch = pitch,
                              !.orientation_yaw = yaw,
                              !.orientation_roll = roll]>>
    /\ models = <<1>>
    /\ persistent_models = <<[key |-> "C1", ref |-> 1]>>
    /\ invocation \in Vertices
    /\ operations = <<>>
    /\ conversation_history = <<>>
    /\ batch = <<>>
    /\ pc = "local"
    /\ conversation_turn = 0
    /\ error = ""
    /\ consumed = <<>>
    /\ before = <<>>
    /\ records_seen = 0
    /\ scene = <<>>
    /\ returned = None

\* mesh.apply_transform(self._get_transform_matrix(model)) on the vertex
ApplyTransform ==
    /\ pc = "local"
    /\ returned' = transform_point(transform_matrix(heap[models[1]]), invocation)
    /\ pc' = "world"
    /\ UNCHANGED <<heap, models, operations, persistent_models,
                   conversation_history, batch, conversation_turn, error,
                   consumed, before, records_seen, scene, invocation>>

NextPose == ApplyTransform

SpecPose == InitPose /\ [][NextPose]_vars

----------------------------------------------------------------------------
(* Properties *)

\* sum over the operations aimed at name n of component k of parameter f
RECURSIVE SumParam(_, _, _, _, _)
SumParam(ops, n, f, k, i) ==
    IF i > Len(ops) THEN 0
    ELSE (IF ops[i].models[1] = n THEN Component(ops[i].parameters[f], k) ELSE 0)
         + SumParam(ops, n, f, k, i + 1)

\* product of the scales of the operations aimed at name n
RECURSIVE ProdScale(_, _, _)
ProdScale(ops, n, i) ==
    IF i > Len(ops) THEN 1
    ELSE (IF ops[i].models[1] = n THEN ops[i].parameters.scale ELSE 1)
         * ProdScale(ops, n, i + 1)

\* indices of the pending operations aimed at name n
Aimed(n) == {i \in 1..Len(operations) : operations[i].models[1] = n}

IsIdentity(o) ==
    /\ o.parameters.translation = <<0, 0, 0>>
    /\ o.parameters.rotation = <<0, 0, 0>>
    /\ o.parameters.scale = 1

\* transform has returned normally; `before` holds the objects it was given
Transformed == pc = "transformed" /\ error = ""

\* the batch is a Cube record followed by an unrotated transform of that cube
CubeThenTransform ==
    /\ Len(batch) = 2
    /\ batch[1].tool = "Cube"
    /\ batch[2].tool = "transform_rigid"
    /\ batch[2].tool_parameters.model = batch[1].tool_parameters.name
    /\ Len(batch[2].tool_parameters.translation) = 3
    /\ batch[2].tool_parameters.rotation = <<0, 0, 0>>

\* C1: a batch of a Cube record (N, w, h, d) followed by a transform_rigid
\* record on N with translation T, rotation 0 and scale s, dispatched and then
\* transformed, gives exactly one model named N, at position T with box_size
\* (s*w, s*h, s*d).
C1_CubeThenTransform ==
    (pc = "transformed" /\ CubeThenTransform) =>
        LET c == batch[1].tool_parameters
            o == batch[2].tool_parameters
            named == {i \in 1..Len(models) : heap[models[i]].name = c.name}
        IN /\ error = ""
           /\ Cardinality(named) = 1
           /\ \A i \in named :
                 LET m == heap[models[i]] IN
                 /\ <<m.coord_x, m.coord_y, m.coord_z>> = o.translation
                 /\ m.box_size = <<o.scale * c.width, o.scale * c.height,
                                   o.scale * c.depth>>

C1_Witness ==
    /\ pc = "transformed"
    /\ batch = <<CubeItem("C1", 2, 2, 2),
                 OpItem("C1", <<1, 2, 3>>, <<0, 0, 0>>, 2)>>
    /\ Len(models) = 1
    /\ heap[models[1]].coord_x = 1
    /\ heap[models[1]].coord_y = 2
    /\ heap[models[1]].coord_z = 3
    /\ heap[models[1]].box_size = <<4, 4, 4>>

\* C2: after transform has applied the pending operations, every model of the
\* list has its position and orientation increased by the sums of the
\* translations and rotations aimed at its name, and its box_size multiplied
\* by the product of their scales.
C2_Accumulate ==
    Transformed =>
        \A r \in Range(models) :
            LET b == before[r]
                m == heap[r]
                n == b.name
            IN /\ m.coord_x = b.coord_x + SumParam(operations, n, "translation", 1, 1)
               /\ m.coord_y = b.coord_y + SumParam(operations, n, "translation", 2, 1)
               /\ m.coord_z = b.coord_z + SumParam(operations, n, "translation", 3, 1)
               /\ m.orientation_pitch =
                      b.orientation_pitch + SumParam(operations, n, "rotation", 1, 1)
               /\ m.orientation_yaw =
                      b.orientation_yaw + SumParam(operations, n, "rotation", 2, 1)
               /\ m.orientation_roll =
                      b.orientation_roll + SumParam(operations, n, "rotation", 3, 1)
               /\ m.box_size = [k \in 1..Len(b.box_size) |->
                                   b.box_size[k] * ProdScale(operations, n, 1)]

C2_Witness ==
    /\ Transformed
    /\ \E r \in Range(models) :
          /\ before[r].coord_x = 0
          /\ heap[r].coord_x = 3
          /\ \E i, j \in Aimed(before[r].name) :
                /\ i < j
                /\ operations[i].parameters.translation = <<1, 0, 0>>
                /\ operations[j].parameters.translation = <<2, 0, 0>>

\* C3: a model whose name is aimed at by identity operations only (translation
\* 0, rotation 0, scale 1) has every field unchanged by transform.
C3_Identity ==
    pc = "transformed" =>
        \A r \in Range(models) :
            (/\ Aimed(before[r].name) # {}
             /\ \A i \in Aimed(before[r].name) : IsIdentity(operations[i]))
            => heap[r] = before[r]

C3_Witness ==
    /\ Transformed
    /\ \E r \in Range(models) :
          /\ Aimed(before[r].name) # {}
          /\ \A i \in Aimed(before[r].name) : IsIdentity(operations[i])
          /\ heap[r] = before[r]

\* C4: transform leaves the name, the type and the type parameters
\* (model_data) of every model as they were, also when box_size is scaled.
C4_FrameOfTransform ==
    pc = "transformed" =>
        \A r \in DOMAIN heap :
            /\ heap[r].name = before[r].name
            /\ heap[r].type = before[r].type
            /\ heap[r].model_data = before[r].model_data

C4_Witness ==
    /\ Transformed
    /\ \E r \in Range(models) :
          /\ heap[r].type = "cylinder"
          /\ heap[r].box_size = <<4, 8, 6>>
          /\ before[r].box_size = <<2, 4, 3>>
          /\ heap[r].model_data = [radius_x |-> 1, radius_y |-> 2, height |-> 3]

\* the list positions whose name already occurs earlier in the list
LaterDuplicates ==
    {j \in 1..Len(models) :
        \E i \in 1..(j - 1) : before[models[i]].name = before[models[j]].name}

C6_OthersUnchanged ==
    pc = "transformed" =>
        /\ \A r \in DOMAIN heap : Aimed(before[r].name) = {} => heap[r] = before[r]
        /\ (\A i \in 1..Len(models) : Aimed(before[models[i]].name) = {})
             => (heap = before /\ error = "")

C6_Witness ==
    /\ pc = "transformed"
    /\ models # <<>>
    /\ \E i \in 1..Len(operations) : Short(operations[i])
    /\ \A i \in 1..Len(models) : Aimed(before[models[i]].name) = {}
    /\ heap = before
    /\ error = ""

\* C7: when a turn has ended, every operation dispatch appended to the
\* pending list has been taken by transform exactly once.
C7_ConsumedExactlyOnce ==
    pc = "idle" => \A i \in 1..Len(operations) : consumed[i] = 1

\* C8: reset_models empties the working set and the pending operations and
\* leaves the persistent store, and the models it holds, as they were.
C8_ResetKeepsStore ==
    pc = "reset" =>
        /\ models = <<>>
        /\ operations = <<>>
        /\ Deref(persistent_models, heap) = before

C8_Witness ==
    /\ pc = "reset"
    /\ conversation_turn > 0
    /\ DictHas(persistent_models, "C1")
    /\ DictHas(persistent_models, "C2")

\* indices of the model records of the batch that create name n
Creating(n) ==
    {i \in 1..Len(batch) :
        batch[i].tool_type = "model" /\ batch[i].tool_parameters.name = n}

Last(S) == CHOOSE i \in S : \A j \in S : j <= i

\* C9: the store has one entry per name, and after dispatch the entry of a
\* name created in the batch is the model made by the last record creating
\* that name, which is also the last model of that name in the working set.
C9_LastWriterWins ==
    /\ \A i, j \in 1..Len(persistent_models) :
          persistent_models[i].key = persistent_models[j].key => i = j
    /\ pc = "dispatched" =>
          \A n \in Names :
              Creating(n) # {} =>
                  LET item == batch[Last(Creating(n))] IN
                  /\ DictHas(persistent_models, n)
                  /\ heap[DictGet(persistent_models, n)]
                        = CallModel(item.tool, item.tool_parameters).value
                  /\ \E i \in 1..Len(models) :
                        /\ models[i] = DictGet(persistent_models, n)
                        /\ \A j \in (i + 1)..Len(models) : heap[models[j]].name # n

C9_Witness ==
    /\ pc = "dispatched"
    /\ Len(batch) >= 2
    /\ batch[1] = CubeItem("C1", 2, 2, 2)
    /\ batch[2] = CylinderItem("C1", 1, 2, 3)
    /\ heap[DictGet(persistent_models, "C1")].type = "cylinder"

\* C10: the working set never holds two models with the same name.
C10_NamesUnique ==
    \A i, j \in 1..Len(models) :
        heap[models[i]].name = heap[models[j]].name => i = j

----------------------------------------------------------------------------
(* Dispatch of one response *)

\* an agent that holds nothing
NewAgent ==
    [heap |-> <<>>, models |-> <<>>, operations |-> <<>>,
     persistent_models |-> <<>>, raised |-> ""]

\* the record has has_content false, names no registered tool, or has no
\* tool key
Skippable(item) ==
    \/ item = None
    \/ "tool" \notin DOMAIN item
    \/ item.tool \notin Range(gen_tool)
    \/ ~Get(item, "has_content", FALSE)

\* the records of data that satisfy Keep, in order
RECURSIVE Select(_, _, _)
Select(data, Keep(_), i) ==
    IF i > Len(data) THEN <<>>
    ELSE (IF Keep(data[i]) THEN <<data[i]>> ELSE <<>>) \o Select(data, Keep, i + 1)

NotSkippable(item) == ~Skippable(item)

\* the agent's fields and the error are those ag has
SameOutcome(ag) ==
    LET live == Collect(ag) IN
    /\ heap = live.heap
    /\ models = live.models
    /\ operations = live.operations
    /\ persistent_models = live.persistent_models
    /\ error = live.raised

\* C11: dispatching a batch gives the models, operations, store and error
\* that dispatching the batch without its skippable records (has_content
\* false, unregistered tool, no tool key) gives: such a record adds nothing,
\* raises nothing, and the records after it are dispatched.
C11_SkippedRecordsAreNoOps ==
    pc = "returned" =>
        SameOutcome(handle_chat_response(NewAgent, Select(batch, NotSkippable, 1), 1))

C11_Witness ==
    /\ pc = "returned"
    /\ batch = <<NoContentItem, UnknownToolItem, NoToolItem,
                 CubeItem("C1", 2, 2, 2)>>
    /\ error = ""
    /\ Len(models) = 1
    /\ heap[models[1]].name = "C1"
    /\ Len(persistent_models) = 1

\* invoking the record's tool fails
Rejected(item) == DispatchItem(NewAgent, item).raised # ""

NotRejected(item) == ~Rejected(item)

\* C13: when invoking the tool of a record fails, dispatch rejects that
\* record only: it returns normally, with the models, operations and store
\* that the other records of the batch give, those after the failing record
\* included.
C13_RejectOnlyFailingRecord ==
    pc = "returned" =>
        LET ag == Collect(handle_chat_response(NewAgent,
                                               Select(batch, NotRejected, 1), 1))
        IN /\ error = ""
           /\ heap = ag.heap
           /\ models = ag.models
           /\ operations = ag.operations
           /\ persistent_models = ag.persistent_models

----------------------------------------------------------------------------
(* Direct tool calls *)

\* the required parameters the invocation does not supply
MissingRequired == Required(invocation.tool) \ DOMAIN invocation.args

\* C12: a call of any registered tool without one of the parameters its
\* descriptor marks required fails, and the error names every missing
\* parameter.
C12_MissingRequiredNamed ==
    (pc = "called" /\ MissingRequired # {}) =>
        /\ returned.raised # ""
        /\ "names" \in DOMAIN returned
        /\ MissingRequired \subseteq returned.names

\* naca_digits consists of exactly four of the characters 0..9
FourDigits(d) == Len(d) = 4 /\ \A i \in 1..Len(d) : IsDecimal(d[i])

\* the call supplies every required parameter and no unknown one
WellBound ==
    /\ MissingRequired = {}
    /\ DOMAIN invocation.args \subseteq
           Required(invocation.tool) \cup Optional(invocation.tool)

\* C16: a NACA4 call whose naca_digits is not exactly four digits raises and
\* returns no model; with exactly four digits it returns a model of type
\* naca4 that stores the designation.
C16_NacaDigitsValidated ==
    (pc = "called" /\ invocation.tool = "NACA4" /\ WellBound) =>
        IF FourDigits(invocation.args.naca_digits)
        THEN /\ returned.raised = ""
             /\ returned.value.type = "naca4"
             /\ returned.value.model_data.naca_digits = invocation.args.naca_digits
        ELSE /\ returned.raised # ""
             /\ "value" \notin DOMAIN returned

C16_Witness ==
    /\ pc = "called"
    /\ invocation.tool = "NACA4"
    /\ WellBound
    /\ invocation.args.naca_digits = <<"1", "1", "1", "1", "1">>
    /\ returned.raised = "ValueError"

\* C17: Model.from_dict(m.to_dict()) returns a model equal to m, for the
\* model m a builder returned.
C17_RoundTrip ==
    pc = "converted" =>
        /\ returned.raised = ""
        /\ returned.value = Built(invocation.tool, invocation.args)

----------------------------------------------------------------------------
(* Rendering *)

\* render has been called on the models of the list
Rendered == pc = "idle" /\ conversation_turn > 0

Recognized(m) == m.type \in {"cube", "cylinder", "half cylinder", "naca4"}

\* building the mesh of m raises
Unconstructible(m) == create_mesh_from_model(m, FALSE).raised # ""

\* no model before position i is unconstructible
Reached(i) == \A j \in 1..(i - 1) : ~Unconstructible(heap[models[j]])

\* the scene entries made for the model at list position i
MeshesOf(i) ==
    {k \in 1..Len(scene) : scene[k].node_name = <<heap[models[i]].name, i - 1>>}

\* C14: render returns normally, and the scene holds the mesh of every model
\* that can be built, whatever other model of the list cannot.
C14_NoExceptionEscapes ==
    Rendered =>
        /\ error = ""
        /\ \A i \in 1..Len(models) :
              (Recognized(heap[models[i]]) /\ ~Unconstructible(heap[models[i]]))
                  => MeshesOf(i) # {}

\* the node names render gives the models of recognized type, in list order
RECURSIVE RecognizedNodes(_)
RecognizedNodes(i) ==
    IF i = 0 THEN <<>>
    ELSE RecognizedNodes(i - 1) \o
         (IF Recognized(heap[models[i]])
          THEN <<(<<heap[models[i]].name, i - 1>>)>> ELSE <<>>)

\* C15: the scene holds exactly one mesh per model of a recognized type, in
\* the order of the list, and none for a model of another type; render
\* returns normally and every model is still in the store.
C15_OneMeshPerRecognizedModel ==
    Rendered =>
        /\ error = ""
        /\ [k \in 1..Len(scene) |-> scene[k].node_name] = RecognizedNodes(Len(models))
        /\ \A i \in 1..Len(models) :
              DictHas(persistent_models, heap[models[i]].name)

\* semi-axis k of the cross-section of a cylinder mesh
SemiAxis(cylinder, k) ==
    (cylinder.radius2 * cylinder.scale[k].num) \div (2 * cylinder.scale[k].den)

\* twice the lower and upper bound of a box along axis k
Low2(b, k) == 2 * b.transform.translation[k] - b.extents[k]
High2(b, k) == 2 * b.transform.translation[k] + b.extents[k]

Abs(x) == IF x < 0 THEN -x ELSE x

\* the cutting box spans the cylinder in Y and Z and covers exactly the part
\* of it on one side of the plane X = 0
CutsHalf(mesh) ==
    LET a == Abs(SemiAxis(mesh.of, 1))
        b == Abs(SemiAxis(mesh.of, 2))
    IN /\ Low2(mesh.by, 2) <= -2 * b /\ High2(mesh.by, 2) >= 2 * b
       /\ Low2(mesh.by, 3) <= -mesh.of.height /\ High2(mesh.by, 3) >= mesh.of.height
       /\ \/ Low2(mesh.by, 1) = 0 /\ High2(mesh.by, 1) >= 2 * a
          \/ High2(mesh.by, 1) = 0 /\ Low2(mesh.by, 1) <= -2 * a

\* C18: when the boolean cut succeeds, the cutting box removes the part of
\* the cylinder on one side of the plane through its axis and nothing of the
\* other side, so that half of the cross-section remains at full height.
C18_CutLeavesHalf ==
    Rendered =>
        \A k \in 1..Len(scene) :
            scene[k].mesh.kind = "difference" => CutsHalf(scene[k].mesh)

\* C19: building the mesh of a half-cylinder model raises nothing: the scene
\* gets the cut cylinder or, when the cut fails, the full cylinder, moved by
\* the model's transform.
C19_HalfCylinderNeverRaises ==
    Rendered =>
        \A i \in 1..Len(models) :
            (heap[models[i]].type = "half cylinder" /\ Reached(i)) =>
                \E k \in MeshesOf(i) :
                    /\ scene[k].mesh.kind \in {"difference", "cylinder"}
                    /\ scene[k].mesh.transform = get_transform_matrix(heap[models[i]])

\* C20: building the mesh of an airfoil model raises nothing: the scene gets
\* the airfoil or, when a step of its construction fails, the box of extents
\* (chord_length, sheet_thickness, chord_length / 10), moved by the model's
\* transform.
C20_AirfoilFallback ==
    Rendered =>
        \A i \in 1..Len(models) :
            (heap[models[i]].type = "naca4" /\ Reached(i)) =>
                \E k \in MeshesOf(i) :
                    LET d == heap[models[i]].model_data IN
                    /\ \/ scene[k].mesh.kind = "airfoil"
                       \/ /\ scene[k].mesh.kind = "box"
                          /\ scene[k].mesh.extents =
                                <<d.chord_length, d.sheet_thickness,
                                  d.chord_length \div 10>>
                    /\ scene[k].mesh.transform = get_transform_matrix(heap[models[i]])

----------------------------------------------------------------------------
(* Materialized geometry *)

Unrotated(m) ==
    m.orientation_pitch = 0 /\ m.orientation_yaw = 0 /\ m.orientation_roll = 0

\* render is called on the transformed models and returns normally
RenderStep ==
    pc = "transformed" /\ error = "" /\ pc' = "idle" /\ error' = ""

\* C21: render gives every cube with zero orientation a box whose extents are
\* the model's current box_size, which is the box_size it had before this
\* turn's operations times the product of the scales aimed at it, centred at
\* the model's position.
C21_CubeExtents ==
    [][RenderStep =>
          \A i \in 1..Len(models) :
              LET m == heap[models[i]]
                  b == before[models[i]]
              IN (m.type = "cube" /\ Unrotated(m)) =>
                     \E k \in 1..Len(scene') :
                         LET mesh == scene'[k].mesh IN
                         /\ scene'[k].node_name = <<m.name, i - 1>>
                         /\ mesh.kind = "box"
                         /\ mesh.extents = m.box_size
                         /\ mesh.extents =
                                [j \in 1..3 |->
                                    b.box_size[j] * ProdScale(operations, b.name, 1)]
                         /\ mesh.transform.translation =
                                <<m.coord_x, m.coord_y, m.coord_z>>
                         /\ mesh.transform.rotation = <<0, 0, 0>>]_vars

\* the cube (2, 2, 2) scaled by 2 in each of two turns
C21_Witness ==
    /\ pc = "idle"
    /\ error = ""
    /\ conversation_turn = 2
    /\ \E k \in 1..Len(scene) :
          /\ scene[k].mesh.kind = "box"
          /\ scene[k].mesh.extents = <<8, 8, 8>>
          /\ scene[k].mesh.transform.translation = <<2, 4, 6>>
    /\ \E r \in Range(models) :
          /\ heap[r].model_data = [width |-> 2, height |-> 2, depth |-> 2]
          /\ heap[r].box_size = <<8, 8, 8>>

\* m is a cylinder or half cylinder lacking a parameter in model_data
LacksParameter(m) ==
    /\ m.type \in {"cylinder", "half cylinder"}
    /\ \/ m.model_data = None
       \/ {"radius_x", "radius_y", "height"} \ DOMAIN m.model_data # {}

\* parameter k of m, taken from box_size when model_data does not provide it
Defaulted(m, k) ==
    LET default == CASE k = "radius_x" -> Half(m.box_size[1])
                     [] k = "radius_y" -> Half(m.box_size[2])
                     [] k = "height" -> m.box_size[3]
    IN IF m.model_data = None THEN default ELSE Get(m.model_data, k, default)

\* C22: a cylinder or half cylinder whose model_data lacks radius_x, radius_y
\* or height, or that has no model_data, is built without error from the
\* values box_size supplies: box_size[0] / 2, box_size[1] / 2, box_size[2].
C22_DefaultsFromBoxSize ==
    Rendered =>
        \A i \in 1..Len(models) :
            LET m == heap[models[i]] IN
            (LacksParameter(m) /\ Reached(i)) =>
                \E k \in MeshesOf(i) :
                    LET mesh == scene[k].mesh
                        cylinder == IF mesh.kind = "difference" THEN mesh.of
                                    ELSE mesh
                    IN /\ cylinder.kind = "cylinder"
                       /\ cylinder.radius2 =
                              Defaulted(m, "radius_x") + Defaulted(m, "radius_y")
                       /\ cylinder.height = Defaulted(m, "height")

----------------------------------------------------------------------------
(* The text of a response *)

\* a block of the response is not JSON text, or its value is not a list; a
\* single record in a fenced block is taken as the list of that record
StructurallyInvalid(response) ==
    \E i \in 1..Len(response.blocks) :
        LET text == response.blocks[i] IN
        /\ text.json # "list"
        /\ ~(text.json = "object" /\ response.fenced)

\* C23: handling a response that cannot be parsed as a JSON list of records
\* ends with an error, and leaves the working set, the pending operations
\* and the store as they were.
C23_InvalidListAborts ==
    [][(pc = "response" /\ pc' = "returned" /\ StructurallyInvalid(invocation))
          => /\ error' # ""
             /\ UNCHANGED <<heap, models, operations, persistent_models>>]_vars

----------------------------------------------------------------------------
(* Airfoil curves *)

\* generate_naca4_coordinates has returned the curves of invocation
Generated == pc = "generated" /\ error = ""

\* C24: for a designation of four digits, a positive chord and two or more
\* samples, the first station is 0, the last is the chord length, and at
\* every station the upper curve is not below the lower one.
C24_AnchoredAndOrdered ==
    (Generated /\ invocation.chord_length > 0 /\ invocation.resolution >= 2) =>
        LET n == invocation.resolution IN
        /\ ~returned.nan
        /\ Len(returned.x) = n
        /\ returned.x[1] = 0
        /\ returned.x[n] = invocation.chord_length * Scale
        /\ \A i \in 1..n : returned.y_upper[i] >= returned.y_lower[i]

\* the curves of 2412 with chord 2 at seven stations, open at the trailing
\* edge
C24_Witness ==
    /\ Generated
    /\ invocation = [naca_digits |-> <<"2", "4", "1", "2">>,
                     chord_length |-> 2, resolution |-> 7]
    /\ returned.x[7] = 2 * Scale
    /\ returned.y_upper[7] > returned.y_lower[7]
    /\ returned.y_upper[4] > 0
    /\ returned.y_lower[4] < 0

\* the first or the second digit of the designation is 0
ZeroCamber(naca_digits) == naca_digits[1] = "0" \/ naca_digits[2] = "0"

\* C25: a designation whose first or second digit is 0 gives the symmetric
\* curves, computed without a division by p: the lower curve mirrors the
\* upper one, so the camber is zero, and both curves lie at the stations x.
C25_SymmetricWhenNoCamber ==
    (pc = "generated" /\ ZeroCamber(invocation.naca_digits)) =>
        /\ error = ""
        /\ returned.symmetric
        /\ ~returned.nan
        /\ \A i \in 1..invocation.resolution :
              /\ returned.y_lower[i] = -returned.y_upper[i]
              /\ returned.y_upper[i] + returned.y_lower[i] = 0
              /\ returned.x_upper[i] = returned.x[i]
              /\ returned.x_lower[i] = returned.x[i]

\* 9012: nine percent camber placed at 0 of the chord
C25_Witness ==
    /\ Generated
    /\ invocation = [naca_digits |-> <<"9", "0", "1", "2">>,
                     chord_length |-> 2, resolution |-> 5]
    /\ returned.y_upper[3] > 0
    /\ returned.y_lower[3] = -returned.y_upper[3]

----------------------------------------------------------------------------
(* World transform *)

\* v turned about the X, Y and Z axis by a degrees
AboutX(a, v) ==
    <<v[1], v[2] * cos_deg(a) - v[3] * sin_deg(a),
      v[2] * sin_deg(a) + v[3] * cos_deg(a)>>
AboutY(a, v) ==
    <<v[1] * cos_deg(a) + v[3] * sin_deg(a), v[2],
      v[3] * cos_deg(a) - v[1] * sin_deg(a)>>
AboutZ(a, v) ==
    <<v[1] * cos_deg(a) - v[2] * sin_deg(a),
      v[1] * sin_deg(a) + v[2] * cos_deg(a), v[3]>>

\* C26: the world position of a vertex v is v turned about X by the pitch,
\* then about Y by the yaw, then about Z by the roll, plus the model's
\* position; the local origin lands on the position, and with zero
\* orientation every vertex is displaced by the position.
C26_WorldTransform ==
    pc = "world" =>
        LET m == heap[models[1]]
            position == <<m.coord_x, m.coord_y, m.coord_z>>
            turned == AboutZ(m.orientation_roll,
                             AboutY(m.orientation_yaw,
                                    AboutX(m.orientation_pitch, invocation)))
        IN /\ returned = [i \in 1..3 |-> turned[i] + position[i]]
           /\ invocation = <<0, 0, 0>> => returned = position
           /\ Unrotated(m) =>
                  returned = [i \in 1..3 |-> invocation[i] + position[i]]

\* the vertex (1, 0, 0) of a model at (1, 2, 3) pitched and yawed by 90
\* degrees
C26_Witness ==
    /\ pc = "world"
    /\ invocation = <<1, 0, 0>>
    /\ heap[models[1]].orientation_pitch = 90
    /\ heap[models[1]].orientation_yaw = 90
    /\ heap[models[1]].orientation_roll = 0
    /\ heap[models[1]].coord_x = 1
    /\ returned = <<1, 2, 2>>

----------------------------------------------------------------------------
(* The CLI loop after the first turn *)

\* the loop reads a line at the prompt
Reads(word) == pc = "idle" /\ invocation' = Command(word)

\* C27: a request read after a completed turn is processed: the display of
\* the previous turn is closed without an error and the request reaches
\* Agent.input on a working set that was reset, so that the conversation
\* grows by the request and its response.
C27_RequestAfterTurnProcessed ==
    [][(Reads("request") /\ conversation_turn > 0)
          => /\ error' # "AttributeError"
             /\ Len(conversation_history') = Len(conversation_history) + 2]_vars

\* C28: `clear` leaves the store, the working set, the pending operations
\* and the conversation history empty and the turn counter at 0.
C28_ClearEmptiesSession ==
    [][Reads("clear")
          => /\ persistent_models' = <<>>
             /\ models' = <<>>
             /\ operations' = <<>>
             /\ conversation_history' = <<>>
             /\ conversation_turn' = 0]_vars

----------------------------------------------------------------------------
(* Transforms of persisted models *)

\* the model the store holds under name n
Stored(pm, h, n) == h[DictGet(pm, n)]

\* transform has moved the store's entry of every name an operation is
\* aimed at, and that entry is in the working set
MovedInStore ==
    Transformed =>
        \A n \in Names :
            (Aimed(n) # {} /\ DictHas(persistent_models, n)) =>
                LET r == DictGet(persistent_models, n)
                    b == before[r]
                    m == heap[r]
                IN /\ r \in Range(models)
                   /\ m.coord_x =
                          b.coord_x + SumParam(operations, n, "translation", 1, 1)
                   /\ m.orientation_yaw =
                          b.orientation_yaw + SumParam(operations, n, "rotation", 2, 1)
                   /\ m.box_size = [k \in 1..Len(b.box_size) |->
                                       b.box_size[k] * ProdScale(operations, n, 1)]

\* C29: when transform has applied the pending operations, the store's
\* entry of every name an operation is aimed at is in the working set and is
\* the object transform has moved; and between transforms a stored model
\* keeps its state over every step that is not a new response, the reset
\* between turns included, so that the operations of a later turn add up
\* with those of an earlier one.
C29_TransformPersists ==
    [][/\ MovedInStore'
       /\ \A n \in Names :
             (/\ DictHas(persistent_models, n)
              /\ DictHas(persistent_models', n)
              /\ Stored(persistent_models', heap', n)
                    # Stored(persistent_models, heap, n))
                 => \/ pc = "dispatched" /\ Aimed(n) # {}
                    \/ Len(conversation_history') > Len(conversation_history)]_vars

\* the cube C1 moved by (1, 2, 3) and scaled by 2 in the first turn, reset,
\* and moved and scaled again by the only operation of the second turn
C29_Witness ==
    /\ Transformed
    /\ conversation_turn = 1
    /\ Len(operations) = 1
    /\ DictHas(persistent_models, "C1")
    /\ DictGet(persistent_models, "C1") \in Range(models)
    /\ before[DictGet(persistent_models, "C1")].box_size = <<4, 4, 4>>
    /\ Stored(persistent_models, heap, "C1").box_size = <<8, 8, 8>>
    /\ Stored(persistent_models, heap, "C1").coord_x = 2
    /\ Stored(persistent_models, heap, "C1").model_data =
           [width |-> 2, height |-> 2, depth |-> 2]

----------------------------------------------------------------------------
(* Conversation history *)

\* the role of entry i of a history that alternates, starting with the user
RoleAt(i) == IF i % 2 = 1 THEN "user" ELSE "assistant"

\* C30: the conversation history alternates user, assistant, ... starting
\* with a user entry, and the timestamp of every entry is its index, counted
\* from 0.
C30_HistoryAlternates ==
    \A i \in 1..Len(conversation_history) :
        /\ conversation_history[i].role = RoleAt(i)
        /\ conversation_history[i].timestamp = i - 1
====
